---- MODULE Spec2Model ----
(***************************************************************************)
(* A model of kafka/handle.go: the handleIOTrigger event bridge            *)
(* (startIOTrigger, its reader goroutine, stop), the cgo map of opaque     *)
(* tokens (cgoPut, cgoGet), the topic <-> rkt caches (getRkt0, getRkt,     *)
(* getTopicNameFromRkt), globalCgoMap (setupGlobalCgoMap, the end of       *)
(* cleanup) and the partition queues of one handle with its cleanup        *)
(* (disablePartitionQueueForwarding, getAssignedPartitionQueue,            *)
(* closePartitionQueues, cleanup).                                         *)
(*                                                                         *)
(* Each component has its own next-state relation and specification        *)
(* (SpecBridge, SpecRegistry, SpecTopic, SpecGlobal, SpecHandle) that      *)
(* leaves the variables of the others unchanged.                           *)
(***************************************************************************)
EXTENDS Integers, FiniteSets, Sequences, TLC

VARIABLES
    \* ---- handleIOTrigger (one bridge) ----
    startPc,        \* position of startIOTrigger: "init","enable","spawn","started","error"
    pipeErr,        \* os.Pipe() returned an error
    ioEventEnabled, \* rd_kafka_queue_io_event_enable is set towards the writer fd
    everEnabled,    \* history: io event notification was enabled at some point
    writerPipe,     \* t.writerPipe: "none","open","closed"
    readerPipe,     \* t.readerPipe: "none","open","closed"
    pipeBuf,        \* bytes written to the pipe and not yet read
    nWritten,       \* history: bytes the foreign library has written
    notifyChan,     \* number of values buffered in t.notifyChan
    notifyClosed,   \* close(t.notifyChan) has run
    readerPc,       \* reader goroutine: "none","read","select","exited"
    nRead,          \* history: bytes the reader goroutine has read
    stopPc,         \* position of stop(): "idle","closeWriter","closeReader","wait","returned"
    stopErr,        \* stop() returned a non-nil error
    waitPc,         \* consumer: "idle" or "blocked" in a receive on notifyChan
    waitResult,     \* result of the last receive: "none","ready","closed"
    waitSawStop,    \* history: stop() had been called when the last receive returned
    anyWait,        \* history: a receive on notifyChan has been issued
    \* ---- cgo map ----
    cgoLock,        \* h.cgoLock: 0 when free, else the thread holding it
    cgoidNext,      \* h.cgoidNext, an unsigned word
    cgomap,         \* h.cgomap: token -> context, NoCtx where there is no entry
    cgoPc,          \* per thread: "idle","putLocked","getLocked"
    cgoArg,         \* per thread: the argument of the call in progress
    cgoRet,         \* the call that returned last, with its result
    tracked,        \* history: one put whose context has not been returned by a get yet
    \* ---- topic <-> rkt caches ----
    rktCacheLock,   \* h.rktCacheLock: 0 when free, else the thread holding it
    rktCache,       \* h.rktCache: topic name -> rkt, NoRkt where there is no entry
    rktNameCache,   \* h.rktNameCache: rkt -> topic name, NoName where there is no entry
    rktPc,          \* per thread: position inside getRkt / getTopicNameFromRkt
    rktLocal,       \* per thread: the locals of the call in progress
    rktRet,         \* the call that returned last, with its result
    topicNewCalls,  \* history: rd_kafka_topic_new calls made, per topic name
    handedOut,      \* history: the rkts getRkt has returned, per topic name
    \* ---- globalCgoMap (several handles) ----
    globalCgoMapLock, \* globalCgoMapLock: 0 when free, else the handle holding it
    globalCgoMap,     \* globalCgoMap: pointer -> handle, NoHandle where there is no entry
    globalCgoPointer, \* per handle: h.globalCgoPointer, NoPtr before C.malloc
    allocated,        \* the pointers C.malloc has returned and C.free has not freed
    globalPc,         \* per handle: position in setupGlobalCgoMap / the end of cleanup
    \* ---- partition queues and cleanup (one handle) ----
    rkqtAssignedPartitions, \* h.rkqtAssignedPartitions: key -> index of its trigger, 0 when absent
    pqTriggers,       \* the partition queues obtained, each with the trigger made on it
    pqForwarding,     \* per key: the partition queue forwards to "default" or is "disabled"
    pqPc,             \* per thread: position in the call in progress
    pqLocal,          \* per thread: the locals of the call in progress
    pqRet,            \* the call that returned last, with its result
    logTrigger,       \* h.logIOPollTrigger: "none","failed","running","stopped","stopFailed"
    queuesDestroyed,  \* which of h.logq, h.rkq cleanup has destroyed
    rktDestroyed,     \* the topic objects cleanup has destroyed
    handleState       \* "ready", "closing" (cleanup is running) or "closed"

bridgeVars == <<startPc, pipeErr, ioEventEnabled, everEnabled, writerPipe, readerPipe,
                pipeBuf, nWritten, notifyChan, notifyClosed, readerPc, nRead,
                stopPc, stopErr, waitPc, waitResult, waitSawStop, anyWait>>
cgoVars == <<cgoLock, cgoidNext, cgomap, cgoPc, cgoArg, cgoRet, tracked>>
rktVars == <<rktCacheLock, rktCache, rktNameCache, rktPc, rktLocal, rktRet,
             topicNewCalls, handedOut>>
globalVars == <<globalCgoMapLock, globalCgoMap, globalCgoPointer, allocated, globalPc>>
pqVars == <<rkqtAssignedPartitions, pqTriggers, pqForwarding, pqPc, pqLocal, pqRet,
            logTrigger, queuesDestroyed, rktDestroyed, handleState>>
handleVars == <<globalVars, pqVars>>
vars == <<bridgeVars, cgoVars, rktVars, handleVars>>

----------------------------------------------------------------------------
(* Bounds *)

\* bytes the foreign library writes to the pipe in one run
MaxSignals == 3

----------------------------------------------------------------------------
(* handleIOTrigger *)

\* make(chan struct{}, 1)
NotifyChanCap == 1

InitBridge ==
    /\ startPc = "init"
    /\ pipeErr = FALSE
    /\ ioEventEnabled = FALSE
    /\ everEnabled = FALSE
    /\ writerPipe = "none"
    /\ readerPipe = "none"
    /\ pipeBuf = 0
    /\ nWritten = 0
    /\ notifyChan = 0
    /\ notifyClosed = FALSE
    /\ readerPc = "none"
    /\ nRead = 0
    /\ stopPc = "idle"
    /\ stopErr = FALSE
    /\ waitPc = "idle"
    /\ waitResult = "none"
    /\ waitSawStop = FALSE
    /\ anyWait = FALSE

\* A mutant of PipeErrReturns: the error of os.Pipe() is not checked.
PipeErrIgnored(err) == FALSE

\* if err != nil { return nil, fmt.Errorf(...) }
PipeErrReturns(err) == err

\* t.readerPipe, t.writerPipe, err = os.Pipe() and the error check after it
StartPipe ==
    /\ startPc = "init"
    /\ \E err \in BOOLEAN :
          /\ pipeErr' = err
          /\ IF PipeErrReturns(err)
                THEN /\ startPc' = "error"
                     /\ UNCHANGED <<writerPipe, readerPipe>>
                ELSE /\ startPc' = "enable"
                     /\ writerPipe' = IF err THEN "none" ELSE "open"
                     /\ readerPipe' = IF err THEN "none" ELSE "open"
    /\ UNCHANGED <<cgoVars, rktVars, handleVars>>
    /\ UNCHANGED <<ioEventEnabled, everEnabled, pipeBuf, nWritten, notifyChan,
                   notifyClosed, readerPc, nRead, stopPc, stopErr, waitPc,
                   waitResult, waitSawStop, anyWait>>

\* C.rd_kafka_queue_io_event_enable(rkq, C.int(t.writerPipe.Fd()), edgeMessage, 1)
StartEnable ==
    /\ startPc = "enable"
    /\ startPc' = "spawn"
    /\ ioEventEnabled' = TRUE
    /\ everEnabled' = TRUE
    /\ UNCHANGED <<cgoVars, rktVars, handleVars>>
    /\ UNCHANGED <<pipeErr, writerPipe, readerPipe, pipeBuf, nWritten, notifyChan,
                   notifyClosed, readerPc, nRead, stopPc, stopErr, waitPc,
                   waitResult, waitSawStop, anyWait>>

\* t.wg.Add(1); go func() {...}(); return t, nil
StartSpawn ==
    /\ startPc = "spawn"
    /\ startPc' = "started"
    /\ readerPc' = "read"
    /\ UNCHANGED <<cgoVars, rktVars, handleVars>>
    /\ UNCHANGED <<pipeErr, ioEventEnabled, everEnabled, writerPipe, readerPipe,
                   pipeBuf, nWritten, notifyChan, notifyClosed, nRead, stopPc,
                   stopErr, waitPc, waitResult, waitSawStop, anyWait>>

\* The foreign library writes the one-byte edge message to the fd it was given.
ForeignWrite ==
    /\ ioEventEnabled
    /\ writerPipe = "open"
    /\ nWritten < MaxSignals
    /\ pipeBuf' = pipeBuf + 1
    /\ nWritten' = nWritten + 1
    /\ UNCHANGED <<cgoVars, rktVars, handleVars>>
    /\ UNCHANGED <<startPc, pipeErr, ioEventEnabled, everEnabled, writerPipe,
                   readerPipe, notifyChan, notifyClosed, readerPc, nRead, stopPc,
                   stopErr, waitPc, waitResult, waitSawStop, anyWait>>

\* t.readerPipe.Read fails: the read end is closed, or the pipe is empty and its
\* write end is closed (end of file).
ReadFails ==
    \/ readerPipe = "closed"
    \/ (pipeBuf = 0 /\ writerPipe = "closed")

\* t.readerPipe.Read returns one byte.
ReadSucceeds == readerPipe = "open" /\ pipeBuf > 0

\* A mutant of NotifySend: the wakeup is dropped even when the channel is empty.
NotifySendNever(n) == n

\* A mutant of NotifySend: the send blocks/queues instead of being dropped.
NotifySendAlways(n) == n + 1

\* select { case t.notifyChan <- struct{}{}: default: }
NotifySend(n) == IF n < NotifyChanCap THEN n + 1 ELSE n

\* _, err := t.readerPipe.Read(oneByteBuffer); if err != nil { return }
\* with the deferred close(t.notifyChan) and t.wg.Done()
ReaderRead ==
    /\ readerPc = "read"
    /\ \/ /\ ReadFails
          /\ readerPc' = "exited"
          /\ notifyClosed' = TRUE
          /\ UNCHANGED <<pipeBuf, nRead>>
       \/ /\ ReadSucceeds
          /\ pipeBuf' = pipeBuf - 1
          /\ nRead' = nRead + 1
          /\ readerPc' = "select"
          /\ UNCHANGED notifyClosed
    /\ UNCHANGED <<cgoVars, rktVars, handleVars>>
    /\ UNCHANGED <<startPc, pipeErr, ioEventEnabled, everEnabled, writerPipe,
                   readerPipe, nWritten, notifyChan, stopPc, stopErr, waitPc,
                   waitResult, waitSawStop, anyWait>>

ReaderSelect ==
    /\ readerPc = "select"
    /\ notifyChan' = NotifySend(notifyChan)
    /\ readerPc' = "read"
    /\ UNCHANGED <<cgoVars, rktVars, handleVars>>
    /\ UNCHANGED <<startPc, pipeErr, ioEventEnabled, everEnabled, writerPipe,
                   readerPipe, pipeBuf, nWritten, notifyClosed, nRead, stopPc,
                   stopErr, waitPc, waitResult, waitSawStop, anyWait>>

\* A mutant of IoEventAfterDisable: stop() does not disable the notification.
IoEventDisableSkipped(enabled) == enabled

\* The notification setting after rd_kafka_queue_io_event_enable(t.rkq, -1, nil, 0).
IoEventAfterDisable(enabled) == FALSE

\* C.rd_kafka_queue_io_event_enable(t.rkq, -1, nil, 0)
StopDisable ==
    /\ startPc = "started"
    /\ stopPc = "idle"
    /\ ioEventEnabled' = IoEventAfterDisable(ioEventEnabled)
    /\ stopPc' = "closeWriter"
    /\ UNCHANGED <<cgoVars, rktVars, handleVars>>
    /\ UNCHANGED <<startPc, pipeErr, everEnabled, writerPipe, readerPipe, pipeBuf,
                   nWritten, notifyChan, notifyClosed, readerPc, nRead, stopErr,
                   waitPc, waitResult, waitSawStop, anyWait>>

\* The state of a pipe end after Close() on it: closed when Close succeeds; when
\* Close reports an error the descriptor may or may not have been released.
AfterClose(err) == IF err THEN {"open", "closed"} ELSE {"closed"}

\* if err := t.writerPipe.Close(); err != nil { return err }
StopCloseWriter ==
    /\ stopPc = "closeWriter"
    /\ \E err \in BOOLEAN :
          /\ writerPipe' \in AfterClose(err)
          /\ stopErr' = err
          /\ stopPc' = IF err THEN "returned" ELSE "closeReader"
    /\ UNCHANGED <<cgoVars, rktVars, handleVars>>
    /\ UNCHANGED <<startPc, pipeErr, ioEventEnabled, everEnabled, readerPipe,
                   pipeBuf, nWritten, notifyChan, notifyClosed, readerPc, nRead,
                   waitPc, waitResult, waitSawStop, anyWait>>

\* if err := t.readerPipe.Close(); err != nil { return err }
StopCloseReader ==
    /\ stopPc = "closeReader"
    /\ \E err \in BOOLEAN :
          /\ readerPipe' \in AfterClose(err)
          /\ stopErr' = err
          /\ stopPc' = IF err THEN "returned" ELSE "wait"
    /\ UNCHANGED <<cgoVars, rktVars, handleVars>>
    /\ UNCHANGED <<startPc, pipeErr, ioEventEnabled, everEnabled, writerPipe,
                   pipeBuf, nWritten, notifyChan, notifyClosed, readerPc, nRead,
                   waitPc, waitResult, waitSawStop, anyWait>>

\* t.wg.Wait(); return nil
StopWait ==
    /\ stopPc = "wait"
    /\ readerPc = "exited"
    /\ stopPc' = "returned"
    /\ UNCHANGED <<cgoVars, rktVars, handleVars>>
    /\ UNCHANGED <<startPc, pipeErr, ioEventEnabled, everEnabled, writerPipe,
                   readerPipe, pipeBuf, nWritten, notifyChan, notifyClosed,
                   readerPc, nRead, stopErr, waitPc, waitResult, waitSawStop,
                   anyWait>>

\* wait(): the consumer starts a receive on t.notifyChan.
WaitCall ==
    /\ startPc = "started"
    /\ waitPc = "idle"
    /\ waitPc' = "blocked"
    /\ anyWait' = TRUE
    /\ UNCHANGED <<cgoVars, rktVars, handleVars>>
    /\ UNCHANGED <<startPc, pipeErr, ioEventEnabled, everEnabled, writerPipe,
                   readerPipe, pipeBuf, nWritten, notifyChan, notifyClosed,
                   readerPc, nRead, stopPc, stopErr, waitResult, waitSawStop>>

\* A receive on the channel can complete: a value is buffered, or it is closed.
CanReceive == notifyChan > 0 \/ notifyClosed

\* wait() returns: a buffered value is received before the closed channel's
\* terminal result.
WaitReturn ==
    /\ waitPc = "blocked"
    /\ CanReceive
    /\ IF notifyChan > 0
          THEN /\ notifyChan' = notifyChan - 1
               /\ waitResult' = "ready"
          ELSE /\ waitResult' = "closed"
               /\ UNCHANGED notifyChan
    /\ waitSawStop' = (stopPc # "idle")
    /\ waitPc' = "idle"
    /\ UNCHANGED <<cgoVars, rktVars, handleVars>>
    /\ UNCHANGED <<startPc, pipeErr, ioEventEnabled, everEnabled, writerPipe,
                   readerPipe, pipeBuf, nWritten, notifyClosed, readerPc, nRead,
                   stopPc, stopErr, anyWait>>

NextBridge ==
    \/ StartPipe
    \/ StartEnable
    \/ StartSpawn
    \/ ForeignWrite
    \/ ReaderRead
    \/ ReaderSelect
    \/ StopDisable
    \/ StopCloseWriter
    \/ StopCloseReader
    \/ StopWait
    \/ WaitCall
    \/ WaitReturn

----------------------------------------------------------------------------
(* cgo map: cgoPut, cgoGet *)

\* width of the unsigned word h.cgoidNext (uintptr) and of the int it is
\* converted to
WordBits == 3

\* live entries the callers keep in the map at one time
MaxLive == 2

\* the goroutines that call into the handle
Threads == {1, 2}

WordSize == 2 ^ WordBits

Contexts == {"ctxA", "ctxB"}

NoCtx == "nil"

\* (int)(h.cgoidNext): the unsigned word read as a signed int of the same width
ToInt(u) == IF u >= WordSize \div 2 THEN u - WordSize ELSE u

\* every value an int of that width can take: the keys of map[int]cgoif
Ints == {ToInt(u) : u \in 0 .. WordSize - 1}

NoTrack == <<>>

NoRet == [op |-> "none", tok |-> 0, cg |-> NoCtx, found |-> FALSE,
          wasLive |-> FALSE, locked |-> FALSE, expected |-> NoCtx]

InitCgo ==
    /\ cgoLock = 0
    /\ cgoidNext = 0
    /\ cgomap = [i \in Ints |-> NoCtx]
    /\ cgoPc = [t \in Threads |-> "idle"]
    /\ cgoArg = [t \in Threads |-> 0]
    /\ cgoRet = NoRet
    /\ tracked = NoTrack

Live == {i \in Ints : cgomap[i] # NoCtx}

\* A mutant of NextCgoid: zero is not skipped when the counter wraps.
NextCgoidNoSkip(n) == (n + 1) % WordSize

\* h.cgoidNext++; if h.cgoidNext == 0 { h.cgoidNext++ }
NextCgoid(n) ==
    LET m == (n + 1) % WordSize
    IN  IF m = 0 THEN (m + 1) % WordSize ELSE m

\* cgoPut: h.cgoLock.Lock()
CgoPutLock(t, cg) ==
    /\ cgoPc[t] = "idle"
    /\ cgoLock = 0
    /\ Cardinality(Live) < MaxLive
    /\ cgoLock' = t
    /\ cgoPc' = [cgoPc EXCEPT ![t] = "putLocked"]
    /\ cgoArg' = [cgoArg EXCEPT ![t] = cg]
    /\ UNCHANGED <<cgoidNext, cgomap, cgoRet, tracked>>
    /\ UNCHANGED <<bridgeVars, rktVars, handleVars>>

\* cgoPut: the counter increment, the store, the deferred Unlock and the return.
\* With tracking, the history variable may start to follow this put.
CgoPutBody(t, tracking) ==
    /\ cgoPc[t] = "putLocked"
    /\ LET next == NextCgoid(cgoidNext)
           cgoid == ToInt(next)
       IN  /\ cgoidNext' = next
           /\ cgomap' = [cgomap EXCEPT ![cgoid] = cgoArg[t]]
           /\ cgoRet' = [op |-> "put", tok |-> cgoid, cg |-> cgoArg[t],
                         found |-> FALSE, wasLive |-> cgomap[cgoid] # NoCtx,
                         locked |-> TRUE, expected |-> NoCtx]
           /\ tracked' \in IF tracking /\ tracked = NoTrack
                              THEN {NoTrack, <<cgoid, cgoArg[t]>>}
                              ELSE {tracked}
    /\ cgoLock' = 0
    /\ cgoPc' = [cgoPc EXCEPT ![t] = "idle"]
    /\ cgoArg' = [cgoArg EXCEPT ![t] = 0]
    /\ UNCHANGED <<bridgeVars, rktVars, handleVars>>

\* A mutant of CgoGetFastPath: token zero goes through the lock and the map.
CgoGetNoFastPath(cgoid) == FALSE

\* if cgoid == 0 { return nil, false }
CgoGetFastPath(cgoid) == cgoid = 0

\* cgoGet: the zero check, else h.cgoLock.Lock()
CgoGetCall(t, cgoid) ==
    /\ cgoPc[t] = "idle"
    /\ IF CgoGetFastPath(cgoid)
          THEN /\ cgoRet' = [op |-> "get", tok |-> cgoid, cg |-> NoCtx,
                             found |-> FALSE, wasLive |-> FALSE,
                             locked |-> FALSE, expected |-> NoCtx]
               /\ UNCHANGED <<cgoLock, cgoPc, cgoArg>>
          ELSE /\ cgoLock = 0
               /\ cgoLock' = t
               /\ cgoPc' = [cgoPc EXCEPT ![t] = "getLocked"]
               /\ cgoArg' = [cgoArg EXCEPT ![t] = cgoid]
               /\ UNCHANGED cgoRet
    /\ UNCHANGED <<cgoidNext, cgomap, tracked>>
    /\ UNCHANGED <<bridgeVars, rktVars, handleVars>>

\* cgoGet: the lookup, the delete when found, the deferred Unlock and the return
CgoGetBody(t) ==
    /\ cgoPc[t] = "getLocked"
    /\ LET cgoid == cgoArg[t]
           cg == cgomap[cgoid]
           found == cg # NoCtx
           hit == found /\ tracked # NoTrack /\ tracked[1] = cgoid
       IN  /\ cgomap' = IF found THEN [cgomap EXCEPT ![cgoid] = NoCtx] ELSE cgomap
           /\ cgoRet' = [op |-> "get", tok |-> cgoid, cg |-> cg, found |-> found,
                         wasLive |-> FALSE, locked |-> TRUE,
                         expected |-> IF hit THEN tracked[2] ELSE NoCtx]
           /\ tracked' = IF hit THEN NoTrack ELSE tracked
    /\ cgoLock' = 0
    /\ cgoPc' = [cgoPc EXCEPT ![t] = "idle"]
    /\ cgoArg' = [cgoArg EXCEPT ![t] = 0]
    /\ UNCHANGED <<bridgeVars, rktVars, handleVars>>
    /\ UNCHANGED cgoidNext

\* Tokens and the lock: the value of the context plays no part, one is enough.
NextCgo ==
    \/ \E t \in Threads : CgoPutLock(t, "ctxA")
    \/ \E t \in Threads : CgoPutBody(t, FALSE)
    \/ \E t \in Threads, cgoid \in Ints : CgoGetCall(t, cgoid)
    \/ \E t \in Threads : CgoGetBody(t)

\* Contexts: two of them, and one put followed until a get returns it.
NextCgoTracked ==
    \/ \E t \in Threads, cg \in Contexts : CgoPutLock(t, cg)
    \/ \E t \in Threads : CgoPutBody(t, TRUE)
    \/ \E t \in Threads, cgoid \in Ints : CgoGetCall(t, cgoid)
    \/ \E t \in Threads : CgoGetBody(t)

----------------------------------------------------------------------------
(* topic <-> rkt caches: getRkt0, getRkt, getTopicNameFromRkt *)

\* native topic objects the foreign library can hand out for one topic name
MaxRktsPerName == 2

TopicNames == {"a", "b"}

\* a C rd_kafka_topic_t: its topic name and which of that topic's objects it is
Rkts == TopicNames \X (1 .. MaxRktsPerName)

NoRkt == <<>>

NoName == ""

\* C.GoString(C.rd_kafka_topic_name(crkt))
TopicNameOf(crkt) == crkt[1]

\* The outcomes of C.rd_kafka_topic_new(h.rk, ctopic, nil): a topic object of
\* that name, or nil.
TopicNew(topic) == {r \in Rkts : TopicNameOf(r) = topic} \cup {NoRkt}

NoLocal == [op |-> "none", topic |-> NoName, crkt |-> NoRkt, doLock |-> FALSE,
            miss |-> FALSE]

NoRktRet == [op |-> "none", topic |-> NoName, crkt |-> NoRkt, miss |-> FALSE,
             fwdHit |-> FALSE]

InitRkt ==
    /\ rktCacheLock = 0
    /\ rktCache = [n \in TopicNames |-> NoRkt]
    /\ rktNameCache = [r \in Rkts |-> NoName]
    /\ rktPc = [t \in Threads |-> "idle"]
    /\ rktLocal = [t \in Threads |-> NoLocal]
    /\ rktRet = NoRktRet
    /\ topicNewCalls = [n \in TopicNames |-> 0]
    /\ handedOut = [n \in TopicNames |-> {}]

\* A panic (topic creation failed) is not recovered: the process is gone.
Panicked == \E t \in Threads : rktPc[t] = "panic"

\* A mutant of GetRktDoLock: getRkt calls getRkt0 without taking the lock.
GetRktNoLock == FALSE

\* getRkt: return h.getRkt0(topic, nil, true)
GetRktDoLock == TRUE

\* A mutant of RktNameCacheStore: the reverse entry is not written.
RktNameCacheSkip(cache, crkt, topic) == cache

\* h.rktNameCache[crkt] = topic
RktNameCacheStore(cache, crkt, topic) == [cache EXCEPT ![crkt] = topic]

\* h.rktCache[topic] = crkt
RktCacheStore(cache, topic, crkt) == [cache EXCEPT ![topic] = crkt]

\* getRkt -> getRkt0(topic, nil, doLock): if doLock { h.rktCacheLock.Lock() }
GetRktCall(t, topic) ==
    /\ ~Panicked
    /\ rktPc[t] = "idle"
    /\ IF GetRktDoLock
          THEN rktCacheLock = 0 /\ rktCacheLock' = t
          ELSE UNCHANGED rktCacheLock
    /\ rktPc' = [rktPc EXCEPT ![t] = "lookup"]
    /\ rktLocal' = [rktLocal EXCEPT ![t] =
                       [op |-> "getRkt", topic |-> topic, crkt |-> NoRkt,
                        doLock |-> GetRktDoLock, miss |-> FALSE]]
    /\ UNCHANGED <<rktCache, rktNameCache, rktRet, topicNewCalls, handedOut>>
    /\ UNCHANGED <<bridgeVars, cgoVars, handleVars>>

\* The return of the call in progress of thread t once getRkt0 has returned
\* crkt: getRkt returns crkt, getTopicNameFromRkt returns topic; the deferred
\* Unlock of whichever function took the lock runs.
RktReturn(t, crkt, fwdHit) ==
    LET l == rktLocal[t]
    IN  /\ rktRet' = [op |-> l.op, topic |-> l.topic,
                      crkt |-> IF l.op = "getRkt" THEN crkt ELSE l.crkt,
                      miss |-> l.miss, fwdHit |-> fwdHit]
        /\ handedOut' = IF l.op = "getRkt"
                           THEN [handedOut EXCEPT ![l.topic] = @ \cup {crkt}]
                           ELSE handedOut
        /\ rktCacheLock' = IF l.op = "nameOf" \/ l.doLock THEN 0 ELSE rktCacheLock
        /\ rktPc' = [rktPc EXCEPT ![t] = "idle"]
        /\ rktLocal' = [rktLocal EXCEPT ![t] = NoLocal]

\* getRkt0: crkt, ok := h.rktCache[topic]; if ok { return crkt }
RktLookup(t) ==
    /\ ~Panicked
    /\ rktPc[t] = "lookup"
    /\ LET crkt == rktCache[rktLocal[t].topic]
       IN  IF crkt # NoRkt
              THEN RktReturn(t, crkt, TRUE)
              ELSE /\ rktPc' = [rktPc EXCEPT ![t] = "create"]
                   /\ UNCHANGED <<rktCacheLock, rktLocal, rktRet, handedOut>>
    /\ UNCHANGED <<rktCache, rktNameCache, topicNewCalls>>
    /\ UNCHANGED <<bridgeVars, cgoVars, handleVars>>

\* getRkt0: crkt = C.rd_kafka_topic_new(...); panic when it is nil; else both
\* cache entries are written and crkt is returned
RktCreate(t) ==
    /\ ~Panicked
    /\ rktPc[t] = "create"
    /\ LET topic == rktLocal[t].topic
       IN  /\ topicNewCalls' = [topicNewCalls EXCEPT ![topic] = @ + 1]
           /\ \E crkt \in TopicNew(topic) :
                 IF crkt = NoRkt
                    THEN /\ rktPc' = [rktPc EXCEPT ![t] = "panic"]
                         /\ rktCacheLock' =
                               IF rktLocal[t].op = "nameOf" \/ rktLocal[t].doLock
                                  THEN 0 ELSE rktCacheLock
                         /\ UNCHANGED <<rktCache, rktNameCache, rktLocal, rktRet,
                                        handedOut>>
                    ELSE /\ rktCache' = RktCacheStore(rktCache, topic, crkt)
                         /\ rktNameCache' = RktNameCacheStore(rktNameCache, crkt, topic)
                         /\ RktReturn(t, crkt, FALSE)
    /\ UNCHANGED <<bridgeVars, cgoVars, handleVars>>

\* getTopicNameFromRkt: h.rktCacheLock.Lock()
NameOfCall(t, crkt) ==
    /\ ~Panicked
    /\ rktPc[t] = "idle"
    /\ rktCacheLock = 0
    /\ rktCacheLock' = t
    /\ rktPc' = [rktPc EXCEPT ![t] = "nameLookup"]
    /\ rktLocal' = [rktLocal EXCEPT ![t] =
                       [op |-> "nameOf", topic |-> NoName, crkt |-> crkt,
                        doLock |-> FALSE, miss |-> FALSE]]
    /\ UNCHANGED <<rktCache, rktNameCache, rktRet, topicNewCalls, handedOut>>
    /\ UNCHANGED <<bridgeVars, cgoVars, handleVars>>

\* getTopicNameFromRkt: topic, ok := h.rktNameCache[crkt]; if ok { return topic }
NameOfLookup(t) ==
    /\ ~Panicked
    /\ rktPc[t] = "nameLookup"
    /\ LET topic == rktNameCache[rktLocal[t].crkt]
       IN  IF topic # NoName
              THEN /\ rktRet' = [op |-> "nameOf", topic |-> topic,
                                 crkt |-> rktLocal[t].crkt, miss |-> FALSE,
                                 fwdHit |-> FALSE]
                   /\ rktCacheLock' = 0
                   /\ rktPc' = [rktPc EXCEPT ![t] = "idle"]
                   /\ rktLocal' = [rktLocal EXCEPT ![t] = NoLocal]
              ELSE /\ rktPc' = [rktPc EXCEPT ![t] = "nameCall"]
                   /\ UNCHANGED <<rktCacheLock, rktLocal, rktRet>>
    /\ UNCHANGED <<rktCache, rktNameCache, topicNewCalls, handedOut>>
    /\ UNCHANGED <<bridgeVars, cgoVars, handleVars>>

\* getTopicNameFromRkt: ctopic := C.rd_kafka_topic_name(crkt);
\* topic = C.GoString(ctopic); crkt = h.getRkt0(topic, ctopic, false)
NameOfForeignName(t) ==
    /\ ~Panicked
    /\ rktPc[t] = "nameCall"
    /\ rktPc' = [rktPc EXCEPT ![t] = "lookup"]
    /\ rktLocal' = [rktLocal EXCEPT ![t].topic = TopicNameOf(rktLocal[t].crkt),
                                    ![t].miss = TRUE]
    /\ UNCHANGED <<rktCacheLock, rktCache, rktNameCache, rktRet, topicNewCalls,
                   handedOut>>
    /\ UNCHANGED <<bridgeVars, cgoVars, handleVars>>

NextRkt ==
    \/ \E t \in Threads, topic \in TopicNames : GetRktCall(t, topic)
    \/ \E t \in Threads : RktLookup(t)
    \/ \E t \in Threads : RktCreate(t)
    \/ \E t \in Threads, crkt \in Rkts : NameOfCall(t, crkt)
    \/ \E t \in Threads : NameOfLookup(t)
    \/ \E t \in Threads : NameOfForeignName(t)

----------------------------------------------------------------------------
(* globalCgoMap: setupGlobalCgoMap and the last four statements of cleanup,  *)
(* for several handles of one process                                       *)

\* the handles the process creates
Handles == {1, 2, 3}

\* the addresses C.malloc can return
MaxPtrs == 2

Ptrs == 1..MaxPtrs
NoPtr == 0
NoHandle == 0

InitGlobal ==
    /\ globalCgoMapLock = 0
    /\ globalCgoMap = [p \in Ptrs |-> NoHandle]
    /\ globalCgoPointer = [h \in Handles |-> NoPtr]
    /\ allocated = {}
    /\ globalPc = [h \in Handles |-> "new"]

\* A mutant of CleanupGlobalOrder: the pointer is freed before the entry is
\* deleted.
CleanupGlobalFreeFirst == <<"free", "unregister">>

\* cleanup: globalCgoMapLock.Lock(); delete(globalCgoMap, h.globalCgoPointer);
\* globalCgoMapLock.Unlock(); and then C.free(h.globalCgoPointer)
CleanupGlobalOrder == <<"unregister", "free">>

\* The statement of the end of cleanup that a handle at position pc runs next.
CleanupGlobalAt(pc) ==
    CASE pc \in {"live", "first"}   -> CleanupGlobalOrder[1]
      [] pc \in {"then", "second"}  -> CleanupGlobalOrder[2]
      [] OTHER                      -> "none"

\* The position after the statement run at pc.
CleanupGlobalAfter(pc) ==
    IF pc \in {"live", "first"} THEN "then" ELSE "closed"

\* h.globalCgoPointer = C.malloc(C.size_t(1))
SetupGlobalMalloc(h) ==
    /\ globalPc[h] = "new"
    /\ \E p \in Ptrs \ allocated :
          /\ globalCgoPointer' = [globalCgoPointer EXCEPT ![h] = p]
          /\ allocated' = allocated \cup {p}
    /\ globalPc' = [globalPc EXCEPT ![h] = "malloced"]
    /\ UNCHANGED <<globalCgoMapLock, globalCgoMap>>
    /\ UNCHANGED <<bridgeVars, cgoVars, rktVars, pqVars>>

\* setupGlobalCgoMap: globalCgoMapLock.Lock()
SetupGlobalLock(h) ==
    /\ globalPc[h] = "malloced"
    /\ globalCgoMapLock = 0
    /\ globalCgoMapLock' = h
    /\ globalPc' = [globalPc EXCEPT ![h] = "store"]
    /\ UNCHANGED <<globalCgoMap, globalCgoPointer, allocated>>
    /\ UNCHANGED <<bridgeVars, cgoVars, rktVars, pqVars>>

\* setupGlobalCgoMap: globalCgoMap[h.globalCgoPointer] = h; globalCgoMapLock.Unlock()
SetupGlobalStore(h) ==
    /\ globalPc[h] = "store"
    /\ globalCgoMap' = [globalCgoMap EXCEPT ![globalCgoPointer[h]] = h]
    /\ globalCgoMapLock' = 0
    /\ globalPc' = [globalPc EXCEPT ![h] = "live"]
    /\ UNCHANGED <<globalCgoPointer, allocated>>
    /\ UNCHANGED <<bridgeVars, cgoVars, rktVars, pqVars>>

\* cleanup: globalCgoMapLock.Lock()
CleanupGlobalLock(h) ==
    /\ globalPc[h] \in {"live", "then"}
    /\ CleanupGlobalAt(globalPc[h]) = "unregister"
    /\ globalCgoMapLock = 0
    /\ globalCgoMapLock' = h
    /\ globalPc' = [globalPc EXCEPT ![h] = IF @ = "live" THEN "first" ELSE "second"]
    /\ UNCHANGED <<globalCgoMap, globalCgoPointer, allocated>>
    /\ UNCHANGED <<bridgeVars, cgoVars, rktVars, pqVars>>

\* cleanup: delete(globalCgoMap, h.globalCgoPointer); globalCgoMapLock.Unlock()
CleanupGlobalDelete(h) ==
    /\ globalPc[h] \in {"first", "second"}
    /\ globalCgoMap' = [globalCgoMap EXCEPT ![globalCgoPointer[h]] = NoHandle]
    /\ globalCgoMapLock' = 0
    /\ globalPc' = [globalPc EXCEPT ![h] = CleanupGlobalAfter(@)]
    /\ UNCHANGED <<globalCgoPointer, allocated>>
    /\ UNCHANGED <<bridgeVars, cgoVars, rktVars, pqVars>>

\* cleanup: C.free(h.globalCgoPointer)
CleanupGlobalFree(h) ==
    /\ globalPc[h] \in {"live", "then"}
    /\ CleanupGlobalAt(globalPc[h]) = "free"
    /\ allocated' = allocated \ {globalCgoPointer[h]}
    /\ globalPc' = [globalPc EXCEPT ![h] = CleanupGlobalAfter(@)]
    /\ UNCHANGED <<globalCgoMapLock, globalCgoMap, globalCgoPointer>>
    /\ UNCHANGED <<bridgeVars, cgoVars, rktVars, pqVars>>

NextGlobal ==
    \/ \E h \in Handles : SetupGlobalMalloc(h)
    \/ \E h \in Handles : SetupGlobalLock(h)
    \/ \E h \in Handles : SetupGlobalStore(h)
    \/ \E h \in Handles : CleanupGlobalLock(h)
    \/ \E h \in Handles : CleanupGlobalDelete(h)
    \/ \E h \in Handles : CleanupGlobalFree(h)

----------------------------------------------------------------------------
(* rkqtAssignedPartitions (disablePartitionQueueForwarding,                 *)
(* getAssignedPartitionQueue, closePartitionQueues) and cleanup, for one    *)
(* handle.  A trigger made on a partition queue is a handleIOTrigger; its   *)
(* startIOTrigger and stop() are taken here as single steps with the        *)
(* outcomes the handleIOTrigger part above shows them to have.              *)

\* partition queues rd_kafka_queue_get_partition hands out in one run
MaxAttach == 2

\* topicPartitionKey{Topic, Partition}
TpKeys == {[Topic |-> "orders", Partition |-> 3], [Topic |-> "orders", Partition |-> 4]}

NoTrigger == 0

NoKey == [Topic |-> "", Partition |-> 0]

NoPqLocal == [op |-> "none", key |-> NoKey, trigger |-> NoTrigger, visited |-> {}]

NoPqRet == [op |-> "none", key |-> NoKey, trigger |-> NoTrigger, res |-> "none"]

\* the handle of the globalCgoMap part that this part is about
ThisHandle == 1

InitPq ==
    /\ rkqtAssignedPartitions = [k \in TpKeys |-> NoTrigger]
    /\ pqTriggers = <<>>
    /\ pqForwarding = [k \in TpKeys |-> "default"]
    /\ pqPc = [t \in Threads |-> "idle"]
    /\ pqLocal = [t \in Threads |-> NoPqLocal]
    /\ pqRet = NoPqRet
    /\ logTrigger = "none"
    /\ queuesDestroyed = {}
    /\ rktDestroyed = {}
    /\ handleState = "ready"

\* the Go runtime has ended the process: fatal error: concurrent map writes
PqFatal == \E t \in Threads : pqPc[t] = "fatal"

\* The goroutine is executing a statement that reads or writes
\* h.rkqtAssignedPartitions: the store of disablePartitionQueueForwarding, the
\* index expression of getAssignedPartitionQueue, the range loop and the
\* re-make of closePartitionQueues.
InPqMap(t) == pqPc[t] \in {"store", "lookup", "range", "destroy"}

\* the keys the range loop of goroutine t has not visited yet
RangeLeft(t) == {k \in TpKeys : rkqtAssignedPartitions[k] # NoTrigger} \ pqLocal[t].visited

\* the goroutine writes the map in the statement it is executing
WritesPqMap(t) == pqPc[t] = "store" \/ (pqPc[t] = "range" /\ RangeLeft(t) = {})

\* closePartitionQueues is running on some goroutine, on its own or in cleanup
ClosingQueues == \E t \in Threads : pqLocal[t].op \in {"detachAll", "cleanup"}

\* a new operation on the handle can start on goroutine t
PqCanCall(t) ==
    /\ ~PqFatal
    /\ pqPc[t] = "idle"
    /\ handleState = "ready"

\* disablePartitionQueueForwarding:
\* partitionQueue := C.rd_kafka_queue_get_partition(...); if nil { return }
PqAttachGetPartition(t, key) ==
    /\ PqCanCall(t)
    /\ \/ /\ pqRet' = [op |-> "attach", key |-> key, trigger |-> NoTrigger,
                       res |-> "noQueue"]
          /\ UNCHANGED <<pqTriggers, pqPc, pqLocal>>
       \/ /\ Len(pqTriggers) < MaxAttach
          /\ pqTriggers' = Append(pqTriggers,
                                  [key |-> key, rkq |-> "held", started |-> FALSE,
                                   ioEventEnabled |-> FALSE, readerTask |-> "none",
                                   stopRet |-> "none", stored |-> FALSE])
          /\ pqPc' = [pqPc EXCEPT ![t] = "forward"]
          /\ pqLocal' = [pqLocal EXCEPT ![t] =
                            [op |-> "attach", key |-> key,
                             trigger |-> Len(pqTriggers) + 1, visited |-> {}]]
          /\ UNCHANGED pqRet
    /\ UNCHANGED <<rkqtAssignedPartitions, pqForwarding, logTrigger, queuesDestroyed,
                   rktDestroyed, handleState>>
    /\ UNCHANGED <<bridgeVars, cgoVars, rktVars, globalVars>>

\* disablePartitionQueueForwarding: C.rd_kafka_queue_forward(partitionQueue, nil)
PqAttachForward(t) ==
    /\ ~PqFatal
    /\ pqPc[t] = "forward"
    /\ pqForwarding' = [pqForwarding EXCEPT ![pqLocal[t].key] = "disabled"]
    /\ pqPc' = [pqPc EXCEPT ![t] = "start"]
    /\ UNCHANGED <<rkqtAssignedPartitions, pqTriggers, pqLocal, pqRet, logTrigger,
                   queuesDestroyed, rktDestroyed, handleState>>
    /\ UNCHANGED <<bridgeVars, cgoVars, rktVars, globalVars>>

\* disablePartitionQueueForwarding:
\* ioHandle, err := startIOTrigger(partitionQueue); if err != nil { return }
PqAttachStart(t) ==
    /\ ~PqFatal
    /\ pqPc[t] = "start"
    /\ LET i == pqLocal[t].trigger
       IN  \E err \in BOOLEAN :
              IF err
                 THEN /\ pqRet' = [op |-> "attach", key |-> pqLocal[t].key,
                                   trigger |-> i, res |-> "startFailed"]
                      /\ pqPc' = [pqPc EXCEPT ![t] = "idle"]
                      /\ pqLocal' = [pqLocal EXCEPT ![t] = NoPqLocal]
                      /\ UNCHANGED pqTriggers
                 ELSE /\ pqTriggers' = [pqTriggers EXCEPT ![i].started = TRUE,
                                                          ![i].ioEventEnabled = TRUE,
                                                          ![i].readerTask = "live"]
                      /\ pqPc' = [pqPc EXCEPT ![t] = "store"]
                      /\ UNCHANGED <<pqLocal, pqRet>>
    /\ UNCHANGED <<rkqtAssignedPartitions, pqForwarding, logTrigger, queuesDestroyed,
                   rktDestroyed, handleState>>
    /\ UNCHANGED <<bridgeVars, cgoVars, rktVars, globalVars>>

\* disablePartitionQueueForwarding: h.rkqtAssignedPartitions[tp] = ioHandle
PqAttachStore(t) ==
    /\ ~PqFatal
    /\ pqPc[t] = "store"
    /\ LET i == pqLocal[t].trigger
       IN  /\ rkqtAssignedPartitions' =
                 [rkqtAssignedPartitions EXCEPT ![pqLocal[t].key] = i]
           /\ pqTriggers' = [pqTriggers EXCEPT ![i].stored = TRUE]
           /\ pqRet' = [op |-> "attach", key |-> pqLocal[t].key, trigger |-> i,
                        res |-> "stored"]
    /\ pqPc' = [pqPc EXCEPT ![t] = "idle"]
    /\ pqLocal' = [pqLocal EXCEPT ![t] = NoPqLocal]
    /\ UNCHANGED <<pqForwarding, logTrigger, queuesDestroyed, rktDestroyed, handleState>>
    /\ UNCHANGED <<bridgeVars, cgoVars, rktVars, globalVars>>

\* getAssignedPartitionQueue: tp := topicPartitionKey{...}
PqLookupCall(t, key) ==
    /\ PqCanCall(t)
    /\ pqPc' = [pqPc EXCEPT ![t] = "lookup"]
    /\ pqLocal' = [pqLocal EXCEPT ![t] =
                      [op |-> "lookup", key |-> key, trigger |-> NoTrigger, visited |-> {}]]
    /\ UNCHANGED <<rkqtAssignedPartitions, pqTriggers, pqForwarding, pqRet, logTrigger,
                   queuesDestroyed, rktDestroyed, handleState>>
    /\ UNCHANGED <<bridgeVars, cgoVars, rktVars, globalVars>>

\* getAssignedPartitionQueue: return h.rkqtAssignedPartitions[tp]
PqLookupReturn(t) ==
    /\ ~PqFatal
    /\ pqPc[t] = "lookup"
    /\ pqRet' = [op |-> "lookup", key |-> pqLocal[t].key,
                 trigger |-> rkqtAssignedPartitions[pqLocal[t].key],
                 res |-> IF rkqtAssignedPartitions[pqLocal[t].key] = NoTrigger
                            THEN "absent" ELSE "found"]
    /\ pqPc' = [pqPc EXCEPT ![t] = "idle"]
    /\ pqLocal' = [pqLocal EXCEPT ![t] = NoPqLocal]
    /\ UNCHANGED <<rkqtAssignedPartitions, pqTriggers, pqForwarding, logTrigger,
                   queuesDestroyed, rktDestroyed, handleState>>
    /\ UNCHANGED <<bridgeVars, cgoVars, rktVars, globalVars>>

\* closePartitionQueues called on its own
PqDetachAllCall(t) ==
    /\ PqCanCall(t)
    /\ ~ClosingQueues
    /\ pqPc' = [pqPc EXCEPT ![t] = "range"]
    /\ pqLocal' = [pqLocal EXCEPT ![t] =
                      [op |-> "detachAll", key |-> NoKey, trigger |-> NoTrigger,
                       visited |-> {}]]
    /\ UNCHANGED <<rkqtAssignedPartitions, pqTriggers, pqForwarding, pqRet, logTrigger,
                   queuesDestroyed, rktDestroyed, handleState>>
    /\ UNCHANGED <<bridgeVars, cgoVars, rktVars, globalVars>>

\* The outcomes of stop() on a started trigger: after the notification is
\* disabled, either both Close calls succeed and wg.Wait() returns once the
\* reader goroutine has exited, or a Close fails and stop() returns the error
\* before wg.Wait().
StopOutcomes(trigger) ==
    { [trigger EXCEPT !.ioEventEnabled = FALSE, !.readerTask = "exited", !.stopRet = "ok"],
      [trigger EXCEPT !.ioEventEnabled = FALSE, !.stopRet = "error"] }

\* closePartitionQueues: for _, parQueueTrigger := range ...; parQueueTrigger.stop()
PqCloseStop(t) ==
    /\ ~PqFatal
    /\ pqPc[t] = "range"
    /\ \E k \in RangeLeft(t) :
          LET i == rkqtAssignedPartitions[k]
          IN  /\ \E after \in StopOutcomes(pqTriggers[i]) :
                    pqTriggers' = [pqTriggers EXCEPT ![i] = after]
              /\ pqLocal' = [pqLocal EXCEPT ![t].key = k, ![t].trigger = i]
    /\ pqPc' = [pqPc EXCEPT ![t] = "destroy"]
    /\ UNCHANGED <<rkqtAssignedPartitions, pqForwarding, pqRet, logTrigger,
                   queuesDestroyed, rktDestroyed, handleState>>
    /\ UNCHANGED <<bridgeVars, cgoVars, rktVars, globalVars>>

\* closePartitionQueues: C.rd_kafka_queue_destroy(parQueueTrigger.rkq)
PqCloseDestroy(t) ==
    /\ ~PqFatal
    /\ pqPc[t] = "destroy"
    /\ pqTriggers' = [pqTriggers EXCEPT ![pqLocal[t].trigger].rkq = "destroyed"]
    /\ pqLocal' = [pqLocal EXCEPT ![t].visited = @ \cup {pqLocal[t].key}]
    /\ pqPc' = [pqPc EXCEPT ![t] = "range"]
    /\ UNCHANGED <<rkqtAssignedPartitions, pqForwarding, pqRet, logTrigger,
                   queuesDestroyed, rktDestroyed, handleState>>
    /\ UNCHANGED <<bridgeVars, cgoVars, rktVars, globalVars>>

\* closePartitionQueues: h.rkqtAssignedPartitions = make(...), and the return
\* to the caller or to cleanup
PqCloseReset(t) ==
    /\ ~PqFatal
    /\ pqPc[t] = "range"
    /\ RangeLeft(t) = {}
    /\ rkqtAssignedPartitions' = [k \in TpKeys |-> NoTrigger]
    /\ IF pqLocal[t].op = "cleanup"
          THEN /\ pqPc' = [pqPc EXCEPT ![t] = "global"]
               /\ pqLocal' = [pqLocal EXCEPT ![t].visited = {}, ![t].key = NoKey,
                                             ![t].trigger = NoTrigger]
               /\ UNCHANGED pqRet
          ELSE /\ pqPc' = [pqPc EXCEPT ![t] = "idle"]
               /\ pqLocal' = [pqLocal EXCEPT ![t] = NoPqLocal]
               /\ pqRet' = [op |-> "detachAll", key |-> NoKey, trigger |-> NoTrigger,
                            res |-> "done"]
    /\ UNCHANGED <<pqTriggers, pqForwarding, logTrigger, queuesDestroyed, rktDestroyed,
                   handleState>>
    /\ UNCHANGED <<bridgeVars, cgoVars, rktVars, globalVars>>

\* cleanup: if h.logs != nil { C.rd_kafka_queue_destroy(h.logq); ... }
PqCleanupLogq(t) ==
    /\ PqCanCall(t)
    /\ ~ClosingQueues
    /\ handleState' = "closing"
    /\ queuesDestroyed' = IF logTrigger # "none" THEN queuesDestroyed \cup {"logq"}
                                                 ELSE queuesDestroyed
    /\ pqPc' = [pqPc EXCEPT ![t] = "topics"]
    /\ pqLocal' = [pqLocal EXCEPT ![t] =
                      [op |-> "cleanup", key |-> NoKey, trigger |-> NoTrigger,
                       visited |-> {}]]
    /\ UNCHANGED <<rkqtAssignedPartitions, pqTriggers, pqForwarding, pqRet, logTrigger,
                   rktDestroyed>>
    /\ UNCHANGED <<bridgeVars, cgoVars, rktVars, globalVars>>

\* cleanup: for _, crkt := range h.rktCache { C.rd_kafka_topic_destroy(crkt) }
PqCleanupTopics(t) ==
    /\ ~PqFatal
    /\ pqPc[t] = "topics"
    /\ rktDestroyed' = {rktCache[n] : n \in TopicNames} \ {NoRkt}
    /\ pqPc' = [pqPc EXCEPT ![t] = "rkq"]
    /\ UNCHANGED <<rkqtAssignedPartitions, pqTriggers, pqForwarding, pqLocal, pqRet,
                   logTrigger, queuesDestroyed, handleState>>
    /\ UNCHANGED <<bridgeVars, cgoVars, rktVars, globalVars>>

\* cleanup: if h.rkq != nil { C.rd_kafka_queue_destroy(h.rkq) }, and the call
\* of h.closePartitionQueues()
PqCleanupRkq(t) ==
    /\ ~PqFatal
    /\ pqPc[t] = "rkq"
    /\ queuesDestroyed' = queuesDestroyed \cup {"rkq"}
    /\ pqPc' = [pqPc EXCEPT ![t] = "range"]
    /\ UNCHANGED <<rkqtAssignedPartitions, pqTriggers, pqForwarding, pqLocal, pqRet,
                   logTrigger, rktDestroyed, handleState>>
    /\ UNCHANGED <<bridgeVars, cgoVars, rktVars, globalVars>>

\* cleanup, from globalCgoMapLock.Lock() to C.free: the steps of the
\* globalCgoMap part, taken for this handle by the goroutine running cleanup
PqCleanupGlobal ==
    /\ ~PqFatal
    /\ \E t \in Threads : pqPc[t] = "global"
    /\ \/ CleanupGlobalLock(ThisHandle)
       \/ CleanupGlobalDelete(ThisHandle)
       \/ CleanupGlobalFree(ThisHandle)

\* cleanup returns
PqCleanupReturn(t) ==
    /\ ~PqFatal
    /\ pqPc[t] = "global"
    /\ globalPc[ThisHandle] = "closed"
    /\ handleState' = "closed"
    /\ pqPc' = [pqPc EXCEPT ![t] = "idle"]
    /\ pqLocal' = [pqLocal EXCEPT ![t] = NoPqLocal]
    /\ pqRet' = [op |-> "cleanup", key |-> NoKey, trigger |-> NoTrigger, res |-> "done"]
    /\ UNCHANGED <<rkqtAssignedPartitions, pqTriggers, pqForwarding, logTrigger,
                   queuesDestroyed, rktDestroyed>>
    /\ UNCHANGED <<bridgeVars, cgoVars, rktVars, globalVars>>

\* setupLogQueue's goroutine: h.pollLogEvents(...) returns, then
\* _ = h.logIOPollTrigger.stop()
LogPollReturn ==
    /\ ~PqFatal
    /\ logTrigger = "running"
    /\ \E err \in BOOLEAN : logTrigger' = IF err THEN "stopFailed" ELSE "stopped"
    /\ UNCHANGED <<rkqtAssignedPartitions, pqTriggers, pqForwarding, pqPc, pqLocal,
                   pqRet, queuesDestroyed, rktDestroyed, handleState>>
    /\ UNCHANGED <<bridgeVars, cgoVars, rktVars, globalVars>>

\* The reader goroutine of a trigger whose stop() returned an error exits
\* later, when its read fails on a descriptor the failed Close did close.
PqReaderExit(i) ==
    /\ ~PqFatal
    /\ i \in 1..Len(pqTriggers)
    /\ pqTriggers[i].stopRet = "error"
    /\ pqTriggers[i].readerTask = "live"
    /\ pqTriggers' = [pqTriggers EXCEPT ![i].readerTask = "exited"]
    /\ UNCHANGED <<rkqtAssignedPartitions, pqForwarding, pqPc, pqLocal, pqRet,
                   logTrigger, queuesDestroyed, rktDestroyed, handleState>>
    /\ UNCHANGED <<bridgeVars, cgoVars, rktVars, globalVars>>

\* A goroutine writes the map while another reads or writes it, no lock being
\* taken by either: the runtime may detect it and end the process.
PqMapFatal(t) ==
    /\ ~PqFatal
    /\ WritesPqMap(t)
    /\ \E u \in Threads \ {t} : InPqMap(u)
    /\ pqPc' = [pqPc EXCEPT ![t] = "fatal"]
    /\ UNCHANGED <<rkqtAssignedPartitions, pqTriggers, pqForwarding, pqLocal, pqRet,
                   logTrigger, queuesDestroyed, rktDestroyed, handleState>>
    /\ UNCHANGED <<bridgeVars, cgoVars, rktVars, globalVars>>

NextHandle ==
    \/ \E t \in Threads, key \in TpKeys : PqAttachGetPartition(t, key)
    \/ \E t \in Threads : PqAttachForward(t)
    \/ \E t \in Threads : PqAttachStart(t)
    \/ \E t \in Threads : PqAttachStore(t)
    \/ \E t \in Threads, key \in TpKeys : PqLookupCall(t, key)
    \/ \E t \in Threads : PqLookupReturn(t)
    \/ \E t \in Threads : PqDetachAllCall(t)
    \/ \E t \in Threads : PqCloseStop(t)
    \/ \E t \in Threads : PqCloseDestroy(t)
    \/ \E t \in Threads : PqCloseReset(t)
    \/ \E t \in Threads : PqCleanupLogq(t)
    \/ \E t \in Threads : PqCleanupTopics(t)
    \/ \E t \in Threads : PqCleanupRkq(t)
    \/ PqCleanupGlobal
    \/ \E t \in Threads : PqCleanupReturn(t)
    \/ LogPollReturn
    \/ \E i \in 1..MaxAttach : PqReaderExit(i)
    \/ \E t \in Threads : PqMapFatal(t)

\* the topics getRkt has been called for before the run starts
CachedAtReady == {"a"}

\* The handle after construction, setup and some use: registered in
\* globalCgoMap, with the topics it has been asked for in its caches, and with
\* its log queue set up or not.
InitReady ==
    /\ InitBridge
    /\ InitCgo
    /\ rktCache = [n \in TopicNames |-> IF n \in CachedAtReady THEN <<n, 1>> ELSE NoRkt]
    /\ rktNameCache = [r \in Rkts |-> IF r[1] \in CachedAtReady /\ r[2] = 1
                                         THEN r[1] ELSE NoName]
    /\ topicNewCalls = [n \in TopicNames |-> IF n \in CachedAtReady THEN 1 ELSE 0]
    /\ handedOut = [n \in TopicNames |-> IF n \in CachedAtReady THEN {<<n, 1>>} ELSE {}]
    /\ rktCacheLock = 0
    /\ rktPc = [t \in Threads |-> "idle"]
    /\ rktLocal = [t \in Threads |-> NoLocal]
    /\ rktRet = NoRktRet
    /\ globalCgoMapLock = 0
    /\ globalCgoMap = [p \in Ptrs |-> IF p = 1 THEN ThisHandle ELSE NoHandle]
    /\ globalCgoPointer = [h \in Handles |-> IF h = ThisHandle THEN 1 ELSE NoPtr]
    /\ allocated = {1}
    /\ globalPc = [h \in Handles |-> IF h = ThisHandle THEN "live" ELSE "new"]
    /\ rkqtAssignedPartitions = [k \in TpKeys |-> NoTrigger]
    /\ pqTriggers = <<>>
    /\ pqForwarding = [k \in TpKeys |-> "default"]
    /\ pqPc = [t \in Threads |-> "idle"]
    /\ pqLocal = [t \in Threads |-> NoPqLocal]
    /\ pqRet = NoPqRet
    /\ logTrigger \in {"none", "running"}
    /\ queuesDestroyed = {}
    /\ rktDestroyed = {}
    /\ handleState = "ready"

----------------------------------------------------------------------------
(* The handle's components side by side *)

Init == InitBridge /\ InitCgo /\ InitRkt /\ InitGlobal /\ InitPq

SpecBridge == Init /\ [][NextBridge]_vars

\* The goroutine scheduler runs a goroutine that can run: the reader goroutine
\* takes its next step, and a receive that can complete does.
FairSpecBridge ==
    /\ SpecBridge
    /\ WF_vars(ReaderRead)
    /\ WF_vars(ReaderSelect)
    /\ WF_vars(WaitReturn)

SpecRegistry == Init /\ [][NextCgo]_vars

SpecRegistryTracked == Init /\ [][NextCgoTracked]_vars

SpecTopic == Init /\ [][NextRkt]_vars

SpecGlobal == Init /\ [][NextGlobal]_vars

SpecHandle == InitReady /\ [][NextHandle]_vars

Next == NextBridge \/ NextCgoTracked \/ NextRkt \/ NextGlobal \/ NextHandle

Spec == Init /\ [][Next]_vars

----------------------------------------------------------------------------
(* Properties of handleIOTrigger, checked under SpecBridge *)

\* bytes the reader goroutine has read and passed through its select
Processed == nRead - (IF readerPc = "select" THEN 1 ELSE 0)

\* the reader goroutine can take a step
ReaderCanStep ==
    \/ readerPc = "select"
    \/ (readerPc = "read" /\ (ReadFails \/ ReadSucceeds))

\* C1: the readiness channel never holds more than one pending wakeup, and
\* N >= 1 readiness bytes read and handled by the reader goroutine before any
\* wait() leave exactly one pending wakeup.
C1_AtMostOneWakeup ==
    /\ notifyChan <= 1
    /\ (~anyWait /\ Processed >= 1) => notifyChan = 1

\* C1 witness: a burst of two or more bytes was read and handled before any
\* wait(), and one wakeup is pending.
C1_BurstCoalesced ==
    /\ ~anyWait
    /\ Processed >= 2
    /\ notifyChan = 1

\* C2 as stated: once stop() has been called every wait() that returns gives the
\* terminal "closed" result, and once stop() has returned a blocked wait() is
\* not stuck: it can return, or the reader goroutine can still make progress.
C2_WaitAfterStopIsClosed ==
    /\ (waitResult # "none" /\ waitSawStop) => waitResult = "closed"
    /\ (stopPc = "returned" /\ waitPc = "blocked") => (CanReceive \/ ReaderCanStep)

\* C3 as stated: whatever stop() returns, the reader goroutine has terminated
\* by the time it returns.
C3_StopAlwaysJoins == stopPc = "returned" => readerPc = "exited"

\* C4: when os.Pipe() fails, startIOTrigger returns the error, no reader
\* goroutine exists and io event notification was never enabled on the queue.
C4_PipeFailureNoEffects ==
    pipeErr => /\ startPc = "error"
               /\ ~everEnabled
               /\ ~ioEventEnabled
               /\ readerPc = "none"
               /\ writerPipe = "none"
               /\ readerPipe = "none"

\* C4 witness: os.Pipe() failed and startIOTrigger returned its error.
C4_PipeFailed == pipeErr /\ startPc = "error"

\* C17: stop() disables the notification, then closes the write end, then the
\* read end, then joins; while the notification is enabled the write end of
\* the pipe is open.
C17_EnabledImpliesWriterOpen ==
    /\ ioEventEnabled => writerPipe = "open"
    /\ stopPc = "closeWriter" =>
          ~ioEventEnabled /\ writerPipe = "open" /\ readerPipe = "open"
    /\ stopPc = "closeReader" =>
          ~ioEventEnabled /\ writerPipe = "closed" /\ readerPipe = "open"
    /\ stopPc = "wait" =>
          ~ioEventEnabled /\ writerPipe = "closed" /\ readerPipe = "closed"

\* C17 witness: stop() has disabled the notification and closed both ends, and
\* waits for the reader goroutine, which has not exited yet.
C17_StopWaitsForReader ==
    /\ stopPc = "wait"
    /\ readerPc # "exited"
    /\ everEnabled

\* C18: while stop() has not been called, a blocked wait() for which a byte is
\* in the pipe, in the reader goroutine's hands or buffered as a wakeup
\* eventually returns a readiness signal; and the reader goroutine's select
\* can always be taken, it never blocks on the channel.
C18_NoLostWakeup ==
    /\ (waitPc = "blocked" /\ stopPc = "idle"
           /\ (pipeBuf > 0 \/ readerPc = "select" \/ notifyChan > 0))
          ~> ((waitPc = "idle" /\ waitResult = "ready") \/ stopPc # "idle")
    /\ [](readerPc = "select" => ENABLED ReaderSelect)

\* C18 witness: on a running bridge a wait() returned a readiness signal after
\* the reader goroutine had read a burst of two or more bytes.
C18_ReadyAfterBurst ==
    /\ waitPc = "idle"
    /\ waitResult = "ready"
    /\ stopPc = "idle"
    /\ nRead >= 2

----------------------------------------------------------------------------
(* Properties of the cgo map, checked under SpecRegistry and SpecRegistryTracked *)

\* the largest value of the signed int
MaxInt == WordSize \div 2 - 1

\* C5 as stated: every token cgoPut returns is a positive integer.
C5_TokensPositive == cgoRet.op = "put" => cgoRet.tok > 0

\* C5 as amended: every token cgoPut returns is non-zero, zero is never a key of
\* the map, and the token is positive exactly while the counter does not exceed
\* the largest signed int: beyond it the token is negative.
C5_TokensNonZero ==
    /\ cgomap[0] = NoCtx
    /\ cgoRet.op = "put" =>
          /\ cgoRet.tok # 0
          /\ cgoRet.tok = ToInt(cgoidNext)
          /\ (cgoRet.tok > 0 <=> cgoidNext <= MaxInt)

\* C5 witness: cgoPut returned 1 while the last token before the wrap, -1, is
\* still in the map: the counter has wrapped.
C5_PutAfterWrap ==
    /\ cgoRet.op = "put"
    /\ cgoRet.tok = 1
    /\ cgomap[-1] # NoCtx

\* C6 as stated: cgoPut never returns a token whose entry is still in the map.
C6_TokensUnique == cgoRet.op = "put" => ~cgoRet.wasLive

\* C7 as stated, for the put that is followed: until a get returns its context,
\* the map holds that context under the put's token; the get that finds the
\* token returns that context; a get that does not find its token returns nil.
C7_GetOncePerPut ==
    /\ tracked # NoTrack => cgomap[tracked[1]] = tracked[2]
    /\ (cgoRet.op = "get" /\ cgoRet.found /\ cgoRet.expected # NoCtx)
          => cgoRet.cg = cgoRet.expected
    /\ (cgoRet.op = "get" /\ ~cgoRet.found) => cgoRet.cg = NoCtx

\* C8: a cgoGet(0) returns (nil, false) without taking the lock, and leaves the
\* map, the counter and the lock as they were.
C8_GetZeroFrame ==
    [][(cgoRet' # cgoRet /\ cgoRet'.op = "get" /\ cgoRet'.tok = 0)
          => /\ ~cgoRet'.found
             /\ cgoRet'.cg = NoCtx
             /\ ~cgoRet'.locked
             /\ UNCHANGED <<cgomap, cgoidNext, cgoLock>>]_vars

\* C8 witness: cgoGet(0) returned not-found while the map holds an entry and
\* another goroutine holds the lock.
C8_GetZeroUnderLock ==
    /\ cgoRet.op = "get"
    /\ cgoRet.tok = 0
    /\ ~cgoRet.found
    /\ ~cgoRet.locked
    /\ cgoLock # 0
    /\ Live # {}

----------------------------------------------------------------------------
(* Properties of the topic <-> rkt caches, checked under SpecTopic *)

\* C9: rd_kafka_topic_new is called at most once per topic name, every getRkt
\* for a name returns the same rkt, and that rkt stays the name's cache entry.
C9_OneRktPerName ==
    \A n \in TopicNames :
        /\ topicNewCalls[n] <= 1
        /\ Cardinality(handedOut[n]) <= 1
        /\ handedOut[n] # {} => handedOut[n] = {rktCache[n]}

\* C9 witness: a getRkt was served from the cache, for a name whose rkt was
\* created once, while the other goroutine is inside a call on the cache.
C9_ServedFromCache ==
    /\ rktRet.op = "getRkt"
    /\ rktRet.fwdHit
    /\ topicNewCalls[rktRet.topic] = 1
    /\ handedOut[rktRet.topic] = {rktRet.crkt}
    /\ \E t \in Threads : rktPc[t] # "idle"

\* C10 as stated: after a getTopicNameFromRkt that missed the reverse cache,
\* the forward cache has an entry for the name it returned and the reverse
\* cache has an entry for the rkt it was asked about.
C10_NameOfCachesBoth ==
    (rktRet.op = "nameOf" /\ rktRet.miss) =>
        /\ rktCache[rktRet.topic] # NoRkt
        /\ rktNameCache[rktRet.crkt] # NoName

\* C10 as amended: after a getTopicNameFromRkt that missed the reverse cache,
\* the name returned is the rkt's name, the forward cache has an entry for it
\* and the reverse cache has that name for the rkt of the forward entry; the rkt
\* asked about has a reverse entry exactly when it is the rkt of the forward
\* entry.
C10_NameOfCachesForward ==
    (rktRet.op = "nameOf" /\ rktRet.miss) =>
        /\ rktRet.topic = TopicNameOf(rktRet.crkt)
        /\ rktCache[rktRet.topic] # NoRkt
        /\ rktNameCache[rktCache[rktRet.topic]] = rktRet.topic
        /\ (rktNameCache[rktRet.crkt] # NoName
               <=> rktCache[rktRet.topic] = rktRet.crkt)

\* C10 witness: a getTopicNameFromRkt missed the reverse cache, found the name
\* in the forward cache, and the rkt it was asked about has no reverse entry.
C10_MissWithForwardHit ==
    /\ rktRet.op = "nameOf"
    /\ rktRet.miss
    /\ rktRet.fwdHit
    /\ rktNameCache[rktRet.crkt] = NoName

\* C16 as stated: no goroutine is in a foreign call (rd_kafka_topic_new,
\* rd_kafka_topic_name) of the topic cache while it holds rktCacheLock.
C16_NoForeignCallUnderLock ==
    \A t \in Threads :
        rktPc[t] \in {"create", "nameCall"} => rktCacheLock # t

\* C16 as amended: a goroutine that is about to make, or is in, one of the
\* foreign calls of getRkt / getTopicNameFromRkt holds rktCacheLock, from the
\* call's entry to its return, and the lock is free when no call is in
\* progress.
C16_ForeignCallUnderLock ==
    /\ \A t \in Threads : rktPc[t] \in {"lookup", "create", "nameLookup", "nameCall"}
                              => rktCacheLock = t
    /\ (\A t \in Threads : rktPc[t] \in {"idle", "panic"}) => rktCacheLock = 0

\* C16 witness: one goroutine is at rd_kafka_topic_new with the lock held, the
\* other has returned from a call on the cache.
C16_CreateUnderLock ==
    /\ \E t \in Threads : rktPc[t] = "create" /\ rktCacheLock = t
    /\ rktRet.op # "none"

----------------------------------------------------------------------------
(* Properties of globalCgoMap, checked under SpecGlobal *)

\* the handle has stored its entry and has not deleted it yet
Registered(h) == globalPc[h] \in {"live", "first"}

\* C13: every handle between its registration and its unregistration has its
\* entry, under its own pointer; every entry belongs to such a handle; and no
\* entry is left under a freed pointer.
C13_OneEntryPerLiveHandle ==
    /\ \A h \in Handles :
          Registered(h) => /\ globalCgoPointer[h] \in allocated
                           /\ globalCgoMap[globalCgoPointer[h]] = h
    /\ \A p \in Ptrs :
          globalCgoMap[p] # NoHandle =>
              /\ p \in allocated
              /\ Registered(globalCgoMap[p])
              /\ globalCgoPointer[globalCgoMap[p]] = p

\* C13 witness: a handle is registered under a pointer that a handle closed
\* before it had used, while another handle is unregistering.
C13_PointerReused ==
    \E h, old, other \in Handles :
        /\ Cardinality({h, old, other}) = 3
        /\ globalPc[h] = "live"
        /\ globalPc[old] = "closed"
        /\ globalCgoPointer[old] = globalCgoPointer[h]
        /\ globalPc[other] = "first"

----------------------------------------------------------------------------
(* Properties of rkqtAssignedPartitions and cleanup, checked under SpecHandle *)

\* no call on the handle is in progress
PqQuiet == \A t \in Threads : pqPc[t] = "idle"

\* the triggers made so far
TriggerIds == 1..Len(pqTriggers)

\* C11: a getAssignedPartitionQueue after a disablePartitionQueueForwarding
\* returns the trigger stored for the key; after closePartitionQueues returns,
\* the map has no entry and the reader goroutine of every trigger the loop has
\* stopped has exited.
C11_AttachLookupDetachAll ==
    /\ (PqQuiet /\ pqRet.op = "lookup")
          => pqRet.trigger = rkqtAssignedPartitions[pqRet.key]
    /\ pqRet.op = "detachAll"
          => /\ \A k \in TpKeys : rkqtAssignedPartitions[k] = NoTrigger
             /\ \A i \in TriggerIds :
                   pqTriggers[i].stopRet # "none" => pqTriggers[i].readerTask = "exited"

\* C12: a partition queue is destroyed only when the trigger on it has its
\* notification disabled and no live reader goroutine.
C12_QueueDestroyedAfterStop ==
    \A i \in TriggerIds :
        pqTriggers[i].rkq = "destroyed"
            => /\ ~pqTriggers[i].ioEventEnabled
               /\ pqTriggers[i].readerTask # "live"

\* cleanup has gone past the loop that destroys the topic objects
TopicsDestroyed ==
    \/ handleState = "closed"
    \/ \E t \in Threads : pqLocal[t].op = "cleanup" /\ pqPc[t] # "topics"

\* C14: by the time cleanup destroys the topic objects, and from then on, the
\* log trigger and every trigger that was stored in the map are stopped, and
\* when cleanup has returned none of them has a live reader goroutine.
C14_CleanupStopsTriggersFirst ==
    /\ TopicsDestroyed
          => /\ logTrigger # "running"
             /\ \A i \in TriggerIds :
                   pqTriggers[i].stored => pqTriggers[i].stopRet # "none"
    /\ handleState = "closed"
          => /\ logTrigger # "running"
             /\ \A i \in TriggerIds : pqTriggers[i].readerTask # "live"

\* C15: no two goroutines are inside a statement that reads or writes
\* h.rkqtAssignedPartitions at the same time.
C15_OneTaskInPartitionMap ==
    \A t, u \in Threads : (t # u) => ~(InPqMap(t) /\ InPqMap(u))

\* C19: once closePartitionQueues has returned and no call is in progress,
\* every trigger that was started has been stopped and every partition queue
\* that was obtained has been destroyed.
C19_DetachAllReleasesAll ==
    (PqQuiet /\ pqRet.op = "detachAll")
        => \A i \in TriggerIds :
              /\ pqTriggers[i].started => pqTriggers[i].stopRet # "none"
              /\ pqTriggers[i].rkq = "destroyed"

\* C20: when disablePartitionQueueForwarding has returned because
\* startIOTrigger failed, the partition queue it obtained is destroyed, and the
\* queue's forwarding is disabled only if the key has a stored trigger.
C20_AttachAllOrNothing ==
    (pqRet.op = "attach" /\ pqRet.res = "startFailed")
        => /\ pqTriggers[pqRet.trigger].rkq = "destroyed"
           /\ ~pqTriggers[pqRet.trigger].stored
           /\ (pqForwarding[pqRet.key] = "disabled"
                  => rkqtAssignedPartitions[pqRet.key] # NoTrigger)

====
